---------------------------- MODULE Spec2Model ----------------------------
(***************************************************************************)
(* State-machine model of the Python Orra SDK session core                 *)
(* (src/sdks/python/orra-sdk/src/orra/client.py, wrappers.py).             *)
(*                                                                         *)
(* The SDK runs on one asyncio event loop: a coroutine runs without        *)
(* interruption between two suspension points, so every action below is    *)
(* the code between two awaits of one coroutine.  Sleeps (reconnect        *)
(* backoff, ack timeout, housekeeping interval) are untimed: a sleeping    *)
(* coroutine may resume at any later step.  The tables keep, for the       *)
(* timestamp t an entry was stored with, its age time.time() - t, which is *)
(* all the code reads of it; an age stops growing once past both limits.   *)
(*                                                                         *)
(* Environment: the user makes one call at a time: start() once, and again *)
(* only after a shutdown() has returned; shutdown() again only after the   *)
(* previous one returned.  The control plane sends frames on an open       *)
(* channel;                                                                *)
(* a channel closes either normally (close code 1000/1001: the websockets  *)
(* iterator ends silently) or abnormally (ConnectionClosed is raised).     *)
(***************************************************************************)
EXTENDS Naturals, Sequences, FiniteSets

\* ------------------------------------------------------------- bounds
MaxMsgId == 2
MaxStarts == 2
MaxShutdowns == 2
MaxDrainers == 2
MaxFailures == 2
MaxInbox == 1
MaxRuns == 2

\* -------------------------------------------------- program constants
MAX_PROCESSED_TASKS_AGE == 24 * 60 * 60
MAX_IN_PROGRESS_AGE == 30 * 60
max_reconnect_attempts == 10
reconnect_interval == 1
max_reconnect_interval == 30

\* ------------------------------------------------------------- inputs
Keys == {"k1", "k2"}
Results == {"r1", "r2"}
TickSteps == {MAX_PROCESSED_TASKS_AGE + 1}

NoEntry == [kind |-> "none"]
Null == "null"

\* A task_request frame: id, executionId, idempotencyKey and whether its
\* input satisfies the input model.  A redelivery repeats id and executionId.
\* revert says that the frame carries a compensation context, which the SDK
\* does not read.
TaskFrame(k, valid) ==
    [id |-> k, executionId |-> k, idempotencyKey |-> k, valid |-> valid,
     revert |-> FALSE]

\* A revert request sent as a task_request: its input is the compensation
\* input {original_task, task_result}, which may or may not satisfy the input
\* model of the task handler.
RevertFrame(k, valid) == [TaskFrame(k, valid) EXCEPT !.revert = TRUE]

\* An ACK frame for a wrapper id and a ping frame for a service id.
AckFrame(id) == [type |-> "ACK", id |-> id]

PingFrame(sid) == [type |-> "ping", serviceId |-> sid]

\* message_type == "task_request" / "ACK" / "ping"
IsTask(frame) == "idempotencyKey" \in DOMAIN frame

IsAck(frame) == "type" \in DOMAIN frame /\ frame.type = "ACK"

IsPing(frame) == "type" \in DOMAIN frame /\ frame.type = "ping"

VARIABLES
    service_id,            \* _service_id
    saved_id,              \* the persisted service id
    ws,                    \* _ws: "none", "open", "closed_ok", "closed_err"
    is_connected,          \* _is_connected (asyncio.Event)
    user_initiated_close,  \* _user_initiated_close
    reconnect_attempts,    \* _reconnect_attempts
    message_id,            \* _message_id
    message_queue,         \* _message_queue (FIFO of wrapped messages)
    pending_messages,      \* _pending_messages (set of wrapped messages, keyed by id)
    processed_tasks_cache, \* _processed_tasks_cache
    in_progress_tasks,     \* _in_progress_tasks
    http_closed,           \* the httpx client has been closed
    cleanup_running,       \* _cleanup_task is alive
    registering,           \* _register_service coroutines awaiting the POST
    conn_start,            \* _connect_websocket tasks created, not yet run
    connecting,            \* _connect_websocket coroutines awaiting websockets.connect
    backoff,               \* _schedule_reconnect coroutines sleeping
    reader,                \* _process_messages: "none", "idle", "handler", "crashed"
    current,               \* the task frame whose handler the reader awaits
    drainers_ready,        \* _process_queue coroutines at the top of their loop
    drainers_waiting,      \* _process_queue coroutines blocked in queue.get()
    watchers,              \* ids with a sleeping _handle_message_timeout
    shutdowns_in_flight,   \* shutdown() coroutines past the close, before the end
    \* history
    last_sent,             \* the wrapped message last written to a channel
    results_written,       \* executionIds a task_result was written to a channel for
    invocations,           \* user handler invocations per key since its last eviction
    first_outcome,         \* outcome of the execution that filled the cache entry
    last_delivery,         \* the last task_request delivery: cache hit, handler
                           \* invoked, outcome emitted, outcome of the first execution,
                           \* input valid, key entered into the in-progress table
    acked,                 \* ids ACKed while pending whose timeout watcher still sleeps
    starts, start_errors, registrations, shutdown_calls, shutdowns_returned,
    last_error,            \* the error the last failed start() raised
    handler_at_shutdown,   \* a handler was executing when shutdown() was called
                           \* and has not returned since
    delays,                \* delays slept by _schedule_reconnect since the last
                           \* successful connect
    failures,              \* connect attempts failed since the last successful connect
    inbox,                 \* frames received on the channel, not yet read by the reader
    version,               \* _version
    cp,                    \* control plane: ids issued, version of the service
    run,                   \* number of the process run (one SDK instance per run)
    log,                   \* registration requests, responses and saves, all runs
    dropped,               \* the last frame the reader dropped: its kind and the
                           \* value of the id counter at the time
    built,                 \* what OrraSDK(...) was called with and what it created
    conf                   \* how the instance was set up: the handlers registered,
                           \* revertible or not; and ids, the number of wrapper ids
                           \* the model lets an instance issue

sdk == <<service_id, saved_id, ws, is_connected, user_initiated_close,
         reconnect_attempts, message_id, message_queue, pending_messages,
         processed_tasks_cache, in_progress_tasks, http_closed, cleanup_running>>
procs == <<registering, conn_start, connecting, backoff, reader, current,
           drainers_ready, drainers_waiting, watchers, shutdowns_in_flight>>
hist == <<last_sent, results_written, invocations, first_outcome, last_delivery,
          acked, starts, start_errors, last_error, registrations, shutdown_calls,
          shutdowns_returned>>
shut == <<handler_at_shutdown>>
chain == <<delays, failures>>
ident == <<version, cp, run, log>>
more == <<shut, chain, inbox, ident, dropped, built, conf>>
vars == <<sdk, procs, hist, more>>

NoDelivery ==
    [key |-> Null, hit |-> FALSE, invoked |-> FALSE, out |-> NoEntry, first |-> NoEntry,
     valid |-> TRUE, entered |-> FALSE, revert |-> FALSE]

\* the id the control plane gives the first service it registers
RegisteredId == "s_1"

\* the ids the control plane issues
CpIds == {RegisteredId, "s_2", "s_3"}

\* API keys, as sequences of characters.
KeyPrefix == <<"s", "k", "-", "o", "r", "r", "a", "-">>
ValidKey == KeyPrefix \o <<"a", "1">>
ApiKeys ==
    {ValidKey, KeyPrefix, <<>>, <<"s", "k", "-", "o", "r", "r", "a">>,
     <<"x">> \o KeyPrefix, <<"S", "K", "-", "O", "R", "R", "A", "-", "a">>,
     <<"s", "k", "_", "o", "r", "r", "a", "-", "a">>}

\* variant: every key is accepted
StartsWith_Any(s, p) == TRUE

\* api_key.startswith("sk-orra-")
StartsWith(s, p) == Len(s) >= Len(p) /\ SubSeq(s, 1, Len(p)) = p

\* What __init__ creates after the key check.
Parts == {"logger", "persistence", "http", "cleanup_task"}

Built(key) == [kind |-> "sdk", key |-> key, parts |-> Parts]

\* the fields and the tasks before anything has run
InitState ==
    /\ service_id = Null
    /\ ws = "none"
    /\ is_connected = FALSE
    /\ user_initiated_close = FALSE
    /\ reconnect_attempts = 0
    /\ message_id = 0
    /\ message_queue = <<>>
    /\ pending_messages = {}
    /\ processed_tasks_cache = [k \in Keys |-> NoEntry]
    /\ in_progress_tasks = [k \in Keys |-> NoEntry]
    /\ http_closed = FALSE
    /\ registering = 0
    /\ conn_start = 0
    /\ connecting = 0
    /\ backoff = 0
    /\ reader = "none"
    /\ current = NoEntry
    /\ drainers_ready = 0
    /\ drainers_waiting = 0
    /\ watchers = {}
    /\ shutdowns_in_flight = 0
    /\ last_sent = NoEntry
    /\ results_written = {}
    /\ invocations = [k \in Keys |-> 0]
    /\ first_outcome = [k \in Keys |-> NoEntry]
    /\ last_delivery = NoDelivery
    /\ acked = {}
    /\ starts = 0
    /\ start_errors = 0
    /\ last_error = Null
    /\ registrations = 0
    /\ shutdown_calls = 0
    /\ shutdowns_returned = 0
    /\ handler_at_shutdown = FALSE
    /\ delays = <<>>
    /\ failures = 0
    /\ inbox = <<>>
    /\ version = 0
    /\ dropped = NoEntry

\* what a new OrraSDK instance starts with: the state above, the parts
\* __init__ creates and the housekeeping task it starts
InitInstance ==
    /\ InitState
    /\ cleanup_running = TRUE
    /\ built = Built(ValidKey)

\* what outlives an instance: the persisted id, the control plane
InitWorld ==
    /\ saved_id = Null
    /\ cp = [issued |-> 0, version |-> [i \in CpIds |-> 0]]
    /\ run = 1
    /\ log = <<>>

\* One task handler registered, not revertible.
DefaultConf ==
    [ids |-> MaxMsgId, handler |-> TRUE, revertible |-> FALSE, revert_handler |-> FALSE]

Init == InitInstance /\ InitWorld /\ conf = DefaultConf


\* ------------------------------------------------------ outbound pipeline
\* variant: the wrapper id leaves the sequence number out
WrapperId_NoSeq(seq, message) == <<0, message.executionId>>

\* message_id = f"msg_{self._message_id}_{message.get('executionId', '')}"
WrapperId(seq, message) == <<seq, message.executionId>>

TaskResult(task, result, error) ==
    [type |-> "task_result", taskId |-> task.id, executionId |-> task.executionId,
     serviceId |-> service_id, result |-> result, error |-> error, status |-> Null]

TaskStatus(task, status) ==
    [type |-> "task_status", taskId |-> task.id, executionId |-> task.executionId,
     serviceId |-> service_id, result |-> Null, error |-> Null, status |-> status]

Pong ==
    [type |-> "pong", taskId |-> Null, executionId |-> "",
     serviceId |-> service_id, result |-> Null, error |-> Null, status |-> Null]

\* if not self._is_connected.is_set() or not self._ws
ConnectionNotReady == ~is_connected \/ ws = "none"

\* await self._ws.send(...) raises on a connection that is not open
SendRaises == ws # "open"

\* variant: the put loses the message
Enqueue_Drop(q, wrapped) == q

\* await self._message_queue.put(wrapped_message)
Enqueue(q, wrapped) == Append(q, wrapped)

\* variant: the pop leaves the entry in place
PopPending_Keep(pm, id) == pm

\* self._pending_messages.pop(message_id, None)
PopPending(pm, id) == {m \in pm : m.id # id}

PendingIds == {m.id : m \in pending_messages}

\* _send_message(message), called with the queue in state q.  A wrapped
\* message is {id, payload}; orig (the id the payload was first wrapped
\* under) and tx (how many times the payload has been written to a channel)
\* are history carried beside it, never read by the SDK.  from is the queue
\* entry the payload was taken from, New for a payload just produced.
New == [orig |-> <<>>, tx |-> 0]

SendMessage(message, from, q) ==
    LET id == WrapperId(message_id, message)
        wrapped == [id |-> id, payload |-> message,
                    orig |-> IF from.orig = <<>> THEN id ELSE from.orig,
                    tx |-> from.tx]
    IN  /\ message_id < conf.ids
        /\ message_id' = message_id + 1
        /\ IF ConnectionNotReady \/ SendRaises
             THEN /\ message_queue' = Enqueue(q, wrapped)
                  /\ UNCHANGED <<pending_messages, watchers, last_sent, results_written>>
             ELSE LET sent == [wrapped EXCEPT !.tx = @ + 1] IN
                  /\ last_sent' = sent
                  /\ results_written' =
                        IF message.type = "task_result"
                          THEN results_written \cup {message.executionId}
                          ELSE results_written
                  /\ pending_messages' = pending_messages \cup {sent}
                  /\ watchers' = watchers \cup {id}
                  /\ message_queue' = q

NoSend ==
    UNCHANGED <<message_id, message_queue, pending_messages, watchers, last_sent,
                results_written>>

\* variant: the timeout drops the unacknowledged message
Requeue_Drop(q, pm, id) == q

\* if message_id in self._pending_messages: ... await self._message_queue.put(message)
Requeue(q, pm, id) ==
    IF \E m \in pm : m.id = id
      THEN Enqueue(q, CHOOSE m \in pm : m.id = id)
      ELSE q

\* _handle_message_timeout(message_id), after its 5 s sleep
MessageTimeout(id) ==
    /\ id \in watchers
    /\ watchers' = watchers \ {id}
    /\ pending_messages' = PopPending(pending_messages, id)
    /\ message_queue' = Requeue(message_queue, pending_messages, id)
    /\ UNCHANGED <<service_id, saved_id, ws, is_connected, user_initiated_close,
                   reconnect_attempts, message_id, processed_tasks_cache,
                   in_progress_tasks, http_closed, cleanup_running>>
    /\ UNCHANGED <<registering, conn_start, connecting, backoff, reader, current,
                   drainers_ready, drainers_waiting, shutdowns_in_flight>>
    /\ acked' = acked \ {id}
    /\ UNCHANGED <<last_sent, results_written, invocations, first_outcome, last_delivery, starts,
                   start_errors, last_error, registrations, shutdown_calls, shutdowns_returned>>
    /\ UNCHANGED more

\* _process_queue: one pass of the loop of a drainer that is not blocked
DrainerLoop ==
    /\ drainers_ready > 0
    /\ IF user_initiated_close
         THEN /\ drainers_ready' = drainers_ready - 1
              /\ UNCHANGED drainers_waiting
              /\ NoSend
         ELSE /\ is_connected
              /\ IF message_queue = <<>>
                   THEN /\ drainers_ready' = drainers_ready - 1
                        /\ drainers_waiting' = drainers_waiting + 1
                        /\ NoSend
                   ELSE /\ SendMessage(Head(message_queue).payload,
                                       Head(message_queue), Tail(message_queue))
                        /\ UNCHANGED <<drainers_ready, drainers_waiting>>
    /\ UNCHANGED <<service_id, saved_id, ws, is_connected, user_initiated_close,
                   reconnect_attempts, processed_tasks_cache,
                   in_progress_tasks, http_closed, cleanup_running>>
    /\ UNCHANGED <<registering, conn_start, connecting, backoff, reader, current,
                   shutdowns_in_flight>>
    /\ UNCHANGED <<invocations, first_outcome, last_delivery, acked, starts,
                   start_errors, last_error, registrations, shutdown_calls, shutdowns_returned>>
    /\ UNCHANGED more

\* _process_queue: a drainer blocked in queue.get() receives a message and
\* sends it, without looking at the connection or the closing flag again
DrainerWake ==
    /\ drainers_waiting > 0
    /\ message_queue # <<>>
    /\ SendMessage(Head(message_queue).payload, Head(message_queue),
                   Tail(message_queue))
    /\ drainers_waiting' = drainers_waiting - 1
    /\ drainers_ready' = drainers_ready + 1
    /\ UNCHANGED <<service_id, saved_id, ws, is_connected, user_initiated_close,
                   reconnect_attempts, processed_tasks_cache,
                   in_progress_tasks, http_closed, cleanup_running>>
    /\ UNCHANGED <<registering, conn_start, connecting, backoff, reader, current,
                   shutdowns_in_flight>>
    /\ UNCHANGED <<invocations, first_outcome, last_delivery, acked, starts,
                   start_errors, last_error, registrations, shutdown_calls, shutdowns_returned>>
    /\ UNCHANGED more


\* ------------------------------------------------------ task engine
\* variant: the cache lookup never finds an entry
CacheHit_Never(k) == FALSE

\* if cached_result := self._processed_tasks_cache.get(idempotency_key)
CacheHit(k) == processed_tasks_cache[k] # NoEntry

\* if self._in_progress_tasks.get(idempotency_key)
InProgress(k) == in_progress_tasks[k] # NoEntry

\* The handler wrappers.py installs: what internal_handler returns or raises
\* (str(e) of the OrraError) for an input and a user-handler outcome.
InternalHandler(valid, out) ==
    IF ~valid THEN [kind |-> "error", val |-> "Input validation failed"]
    ELSE IF out.kind = "ok" THEN [kind |-> "result", val |-> out.val]
    ELSE [kind |-> "error", val |-> "Service error"]

\* The cache entry _handle_task stores: {"result", "timestamp"} on success,
\* {"error", "timestamp"} on failure.
CacheEntry(outcome) ==
    [kind |-> outcome.kind, val |-> outcome.val, age |-> 0]

\* The task_result payload for an outcome.
ResultOf(task, outcome) ==
    IF outcome.kind = "result" THEN TaskResult(task, outcome.val, Null)
    ELSE TaskResult(task, Null, outcome.val)

Outcome(entry) == [kind |-> entry.kind, val |-> entry.val]

HandlerOutcomes ==
    {[kind |-> "ok", val |-> r] : r \in Results}
        \cup {[kind |-> "raise", val |-> Null], [kind |-> "badtype", val |-> Null]}

\* _handle_task(task) up to its first suspension, awaited by the reader.
HandleTask(task) ==
    LET k == task.idempotencyKey
        cached == processed_tasks_cache[k]
    IN
    /\ reader = "idle"
    /\ ws = "open"
    /\ IF CacheHit(k)
         THEN IF cached.kind = "error"
                THEN \* cached_result["result"] raises KeyError: the reader task dies
                     /\ reader' = "crashed"
                     /\ last_delivery' = [key |-> k, hit |-> TRUE, invoked |-> FALSE,
                                          out |-> NoEntry, first |-> first_outcome[k],
                                          valid |-> task.valid, entered |-> FALSE,
                                          revert |-> task.revert]
                     /\ NoSend
                     /\ UNCHANGED <<processed_tasks_cache, in_progress_tasks, current,
                                    invocations, first_outcome>>
                ELSE /\ SendMessage(TaskResult(task, cached.val, Null), New,
                                    message_queue)
                     /\ last_delivery' = [key |-> k, hit |-> TRUE, invoked |-> FALSE,
                                          out |-> Outcome(cached), first |-> first_outcome[k],
                                          valid |-> task.valid, entered |-> FALSE,
                                          revert |-> task.revert]
                     /\ UNCHANGED <<processed_tasks_cache, in_progress_tasks, reader,
                                    current, invocations, first_outcome>>
         ELSE IF InProgress(k)
                THEN /\ SendMessage(TaskStatus(task, "in_progress"), New,
                                    message_queue)
                     /\ last_delivery' = [key |-> k, hit |-> FALSE, invoked |-> FALSE,
                                          out |-> NoEntry, first |-> first_outcome[k],
                                          valid |-> task.valid, entered |-> FALSE,
                                          revert |-> task.revert]
                     /\ UNCHANGED <<processed_tasks_cache, in_progress_tasks, reader,
                                    current, invocations, first_outcome>>
         ELSE IF ~task.valid
                THEN \* model_validate raises before the user handler is awaited:
                     \* insert, except branch and finally run without suspension
                     LET outcome == InternalHandler(FALSE, NoEntry) IN
                     /\ processed_tasks_cache' =
                            [processed_tasks_cache EXCEPT ![k] = CacheEntry(outcome)]
                     /\ SendMessage(ResultOf(task, outcome), New, message_queue)
                     /\ first_outcome' = [first_outcome EXCEPT ![k] = outcome]
                     /\ last_delivery' = [key |-> k, hit |-> FALSE, invoked |-> FALSE,
                                          out |-> outcome, first |-> first_outcome[k],
                                          valid |-> task.valid, entered |-> TRUE,
                                          revert |-> task.revert]
                     \* the key is inserted before the handler is awaited and
                     \* deleted by the finally clause, within this step
                     /\ in_progress_tasks' =
                            [[in_progress_tasks EXCEPT ![k] = [kind |-> "started", age |-> 0]]
                                EXCEPT ![k] = NoEntry]
                     /\ UNCHANGED <<reader, current, invocations>>
         ELSE /\ in_progress_tasks' =
                    [in_progress_tasks EXCEPT ![k] = [kind |-> "started", age |-> 0]]
              /\ invocations' = [invocations EXCEPT ![k] = @ + 1]
              /\ reader' = "handler"
              /\ current' = task
              /\ last_delivery' = [key |-> k, hit |-> FALSE, invoked |-> TRUE,
                                          out |-> NoEntry, first |-> first_outcome[k],
                                          valid |-> task.valid, entered |-> TRUE,
                                          revert |-> task.revert]
              /\ NoSend
              /\ UNCHANGED <<processed_tasks_cache, first_outcome>>
    /\ UNCHANGED <<service_id, saved_id, ws, is_connected, user_initiated_close,
                   reconnect_attempts, http_closed, cleanup_running>>
    /\ UNCHANGED <<registering, conn_start, connecting, backoff,
                   drainers_ready, drainers_waiting, shutdowns_in_flight>>
    /\ UNCHANGED <<acked, starts, start_errors, last_error, registrations, shutdown_calls,
                   shutdowns_returned>>
    /\ UNCHANGED <<shut, chain, ident, dropped, built, conf>>

\* _process_messages reads a task_request from the channel and awaits
\* _handle_task(task).
DeliverTask(task) ==
    /\ inbox = <<>>
    /\ HandleTask(task)
    /\ UNCHANGED inbox

\* A task_request arrives while the reader awaits a handler: the connection
\* buffers it until the reader asks for the next frame.
Arrive(task) ==
    /\ reader = "handler"
    /\ ws = "open"
    /\ Len(inbox) < MaxInbox
    /\ inbox' = Append(inbox, task)
    /\ UNCHANGED <<sdk, procs, hist, shut, chain, ident, dropped, built, conf>>

\* The reader takes the next frame from the connection's buffer.
ReadBuffered ==
    /\ inbox # <<>>
    /\ IsTask(Head(inbox))
    /\ HandleTask(Head(inbox))
    /\ inbox' = Tail(inbox)

\* variant: the result is sent but neither cached nor taken out of the
\* in-progress table
HandlerReturn_NoBookkeeping(out) ==
    LET task == current
        k == task.idempotencyKey
        outcome == InternalHandler(TRUE, out)
    IN
    /\ reader = "handler"
    /\ SendMessage(ResultOf(task, outcome), New, message_queue)
    /\ first_outcome' = [first_outcome EXCEPT ![k] = outcome]
    /\ reader' = "idle"
    /\ UNCHANGED <<processed_tasks_cache, in_progress_tasks>>
    /\ current' = NoEntry
    /\ UNCHANGED <<service_id, saved_id, ws, is_connected, user_initiated_close,
                   reconnect_attempts, http_closed, cleanup_running>>
    /\ UNCHANGED <<registering, conn_start, connecting, backoff,
                   drainers_ready, drainers_waiting, shutdowns_in_flight>>
    /\ UNCHANGED <<invocations, last_delivery, acked, starts, start_errors, last_error,
                   registrations, shutdown_calls, shutdowns_returned>>
    /\ handler_at_shutdown' = FALSE
    /\ UNCHANGED <<chain, inbox, ident, dropped, built, conf>>

\* variant: the finally clause leaves the key in the table
DelInProgress_Keep(t, k) == t

\* del self._in_progress_tasks[idempotency_key]
DelInProgress(t, k) == [t EXCEPT ![k] = NoEntry]

\* The awaited user handler finishes with out: the rest of _handle_task.
HandlerReturn(out) ==
    LET task == current
        k == task.idempotencyKey
        outcome == InternalHandler(TRUE, out)
    IN
    /\ reader = "handler"
    /\ processed_tasks_cache' = [processed_tasks_cache EXCEPT ![k] = CacheEntry(outcome)]
    /\ SendMessage(ResultOf(task, outcome), New, message_queue)
    /\ first_outcome' = [first_outcome EXCEPT ![k] = outcome]
    \* finally: del self._in_progress_tasks[idempotency_key]
    /\ IF InProgress(k)
         THEN /\ in_progress_tasks' = DelInProgress(in_progress_tasks, k)
              /\ reader' = "idle"
         ELSE /\ reader' = "crashed"
              /\ UNCHANGED in_progress_tasks
    /\ current' = NoEntry
    /\ UNCHANGED <<service_id, saved_id, ws, is_connected, user_initiated_close,
                   reconnect_attempts, http_closed, cleanup_running>>
    /\ UNCHANGED <<registering, conn_start, connecting, backoff,
                   drainers_ready, drainers_waiting, shutdowns_in_flight>>
    /\ UNCHANGED <<invocations, last_delivery, acked, starts, start_errors, last_error,
                   registrations, shutdown_calls, shutdowns_returned>>
    /\ handler_at_shutdown' = FALSE
    /\ UNCHANGED <<chain, inbox, ident, dropped, built, conf>>


\* ------------------------------------------------------ inbound dispatcher
OtherServiceId == "s_other"

\* variant: every ping is taken as a ping for this service
PingForThisService_Any(sid) == TRUE

\* if data.get("serviceId") != self._service_id: return
PingForThisService(sid) == sid = service_id

\* _handle_ping / _send_pong
HandlePing(sid) ==
    /\ reader = "idle"
    /\ ws = "open"
    /\ IF PingForThisService(sid) /\ ws # "none" /\ is_connected
         THEN SendMessage(Pong, New, message_queue)
         ELSE NoSend
    /\ UNCHANGED <<service_id, saved_id, ws, is_connected, user_initiated_close,
                   reconnect_attempts, processed_tasks_cache,
                   in_progress_tasks, http_closed, cleanup_running>>
    /\ UNCHANGED <<registering, conn_start, connecting, backoff, reader, current,
                   drainers_ready, drainers_waiting, shutdowns_in_flight>>
    /\ UNCHANGED <<invocations, first_outcome, last_delivery, acked, starts,
                   start_errors, last_error, registrations, shutdown_calls, shutdowns_returned>>
    /\ UNCHANGED <<shut, chain, ident, dropped, built, conf>>

\* _process_messages reads a ping from the channel and awaits _handle_ping.
DeliverPing(sid) ==
    /\ inbox = <<>>
    /\ HandlePing(sid)
    /\ UNCHANGED inbox

\* A ping arrives while the reader awaits a handler and is buffered.
ArrivePing(sid) ==
    /\ reader = "handler"
    /\ ws = "open"
    /\ Len(inbox) < MaxInbox
    /\ inbox' = Append(inbox, PingFrame(sid))
    /\ UNCHANGED <<sdk, procs, hist, shut, chain, ident, dropped, built, conf>>

\* The reader takes a buffered ping.
ReadBufferedPing ==
    /\ inbox # <<>>
    /\ IsPing(Head(inbox))
    /\ HandlePing(Head(inbox).serviceId)
    /\ inbox' = Tail(inbox)

\* an id the SDK never issued
UnknownId == <<MaxMsgId, "">>

\* _handle_ack: the control plane acknowledges a wrapper id
HandleAck(id) ==
    /\ reader = "idle"
    /\ ws = "open"
    /\ pending_messages' = PopPending(pending_messages, id)
    /\ acked' = IF id \in PendingIds THEN acked \cup {id} ELSE acked
    /\ UNCHANGED <<service_id, saved_id, ws, is_connected, user_initiated_close,
                   reconnect_attempts, message_id, message_queue,
                   processed_tasks_cache, in_progress_tasks, http_closed,
                   cleanup_running>>
    /\ UNCHANGED <<procs>>
    /\ UNCHANGED <<last_sent, results_written, invocations, first_outcome, last_delivery, starts,
                   start_errors, last_error, registrations, shutdown_calls, shutdowns_returned>>
    /\ UNCHANGED <<shut, chain, ident, dropped, built, conf>>

\* _process_messages reads an ACK from the channel and awaits _handle_ack.
DeliverAck(id) ==
    /\ inbox = <<>>
    /\ HandleAck(id)
    /\ UNCHANGED inbox

\* An ACK arrives while the reader awaits a handler and is buffered.
ArriveAck(id) ==
    /\ reader = "handler"
    /\ ws = "open"
    /\ Len(inbox) < MaxInbox
    /\ inbox' = Append(inbox, AckFrame(id))
    /\ UNCHANGED <<sdk, procs, hist, shut, chain, ident, dropped, built, conf>>

\* The reader takes a buffered ACK.
ReadBufferedAck ==
    /\ inbox # <<>>
    /\ IsAck(Head(inbox))
    /\ HandleAck(Head(inbox).id)
    /\ inbox' = Tail(inbox)

\* A frame that is none of ping, ACK, task_request.
OtherFrames == {"not_json", "unknown_type"}

\* variant: the exception of json.loads is not caught and ends the reader
DeliverOther_Crash(kind) ==
    /\ reader = "idle"
    /\ inbox = <<>>
    /\ ws = "open"
    /\ dropped' = [kind |-> kind, at |-> message_id]
    /\ reader' = IF kind = "not_json" THEN "crashed" ELSE reader
    /\ UNCHANGED <<sdk, hist>>
    /\ UNCHANGED <<registering, conn_start, connecting, backoff, current,
                   drainers_ready, drainers_waiting, watchers, shutdowns_in_flight>>
    /\ UNCHANGED <<shut, chain, inbox, ident, built, conf>>

\* _process_messages on such a frame: json.loads raises JSONDecodeError
\* (error log), or no branch matches the type (warn log)
DeliverOther(kind) ==
    /\ reader = "idle"
    /\ inbox = <<>>
    /\ ws = "open"
    /\ dropped' = [kind |-> kind, at |-> message_id]
    /\ UNCHANGED <<sdk, procs, hist>>
    /\ UNCHANGED <<shut, chain, inbox, ident, built, conf>>

\* _process_messages on a frame that is valid JSON but no object (a number,
\* a string, an array, null): json.loads returns it and data.get("type")
\* raises AttributeError, which neither except clause catches; the reader
\* task ends with the exception.
DeliverNonObject ==
    /\ reader = "idle"
    /\ inbox = <<>>
    /\ ws = "open"
    /\ reader' = "crashed"
    /\ UNCHANGED <<sdk, hist>>
    /\ UNCHANGED <<registering, conn_start, connecting, backoff, current,
                   drainers_ready, drainers_waiting, watchers, shutdowns_in_flight>>
    /\ UNCHANGED more

\* ------------------------------------------------------ session connection
RECURSIVE Pow2(_)
Pow2(n) == IF n = 0 THEN 1 ELSE 2 * Pow2(n - 1)

Min(a, b) == IF a <= b THEN a ELSE b

\* variant: the delay is not capped
ReconnectDelay_Uncapped(attempts) == reconnect_interval * Pow2(attempts)

\* delay = min(self._reconnect_interval * (2 ** self._reconnect_attempts),
\*             self._max_reconnect_interval)
ReconnectDelay(attempts) ==
    Min(reconnect_interval * Pow2(attempts), max_reconnect_interval)

\* variant: the attempt counter is not compared with the cap
ScheduleReconnect_NoCap ==
    /\ delays' = Append(delays, ReconnectDelay(reconnect_attempts))
    /\ reconnect_attempts' = reconnect_attempts + 1
    /\ backoff' = backoff + 1

\* variant: the failure is handled twice, each time arming a reconnect
ScheduleReconnect_Twice ==
    IF reconnect_attempts >= max_reconnect_attempts
      THEN UNCHANGED <<reconnect_attempts, backoff, delays>>
      ELSE /\ delays' = Append(delays, ReconnectDelay(reconnect_attempts))
           /\ reconnect_attempts' = reconnect_attempts + 1
           /\ backoff' = backoff + 2

\* _schedule_reconnect up to its sleep
ScheduleReconnect ==
    IF reconnect_attempts >= max_reconnect_attempts
      THEN UNCHANGED <<reconnect_attempts, backoff, delays>>
      ELSE /\ delays' = Append(delays, ReconnectDelay(reconnect_attempts))
           /\ reconnect_attempts' = reconnect_attempts + 1
           /\ backoff' = backoff + 1

\* variant: a reconnect goes through registration again
BackoffElapsed_Reregister ==
    /\ backoff > 0
    /\ backoff' = backoff - 1
    /\ registering' = registering + 1
    /\ UNCHANGED <<sdk, hist>>
    /\ UNCHANGED <<conn_start, connecting, reader, current, drainers_ready,
                   drainers_waiting, watchers, shutdowns_in_flight>>
    /\ UNCHANGED more

\* _schedule_reconnect after its sleep: asyncio.create_task(_connect_websocket())
BackoffElapsed ==
    /\ backoff > 0
    /\ backoff' = backoff - 1
    /\ conn_start' = conn_start + 1
    /\ UNCHANGED <<sdk, hist>>
    /\ UNCHANGED <<registering, connecting, reader, current, drainers_ready,
                   drainers_waiting, watchers, shutdowns_in_flight>>
    /\ UNCHANGED more

\* _connect_websocket up to await websockets.connect(uri)
ConnectBegin ==
    /\ conn_start > 0
    /\ conn_start' = conn_start - 1
    /\ IF user_initiated_close
         THEN UNCHANGED connecting      \* raise ConnectionError: the task ends
         ELSE connecting' = connecting + 1
    /\ UNCHANGED <<sdk, hist>>
    /\ UNCHANGED <<registering, backoff, reader, current, drainers_ready,
                   drainers_waiting, watchers, shutdowns_in_flight>>
    /\ UNCHANGED more

\* variant: no queue processor is started on connect
SpawnDrainer_None(n) == n

\* asyncio.create_task(self._process_queue())
SpawnDrainer(n) == n + 1

\* variant: the counter keeps its value over a successful connect
AttemptsAfterConnect_Keep(attempts) == attempts

\* self._reconnect_attempts = 0
AttemptsAfterConnect(attempts) == 0

\* websockets.connect returned a connection
ConnectOk ==
    /\ connecting > 0
    /\ reader = "none"
    /\ connecting' = connecting - 1
    /\ ws' = "open"
    /\ reconnect_attempts' = AttemptsAfterConnect(reconnect_attempts)
    /\ is_connected' = TRUE
    /\ reader' = "idle"
    /\ drainers_ready' = SpawnDrainer(drainers_ready)
    /\ UNCHANGED <<service_id, saved_id, user_initiated_close, message_id,
                   message_queue, pending_messages, processed_tasks_cache,
                   in_progress_tasks, http_closed, cleanup_running>>
    /\ UNCHANGED <<registering, conn_start, backoff, current, drainers_waiting,
                   watchers, shutdowns_in_flight>>
    /\ UNCHANGED <<hist>>
    /\ delays' = <<>>
    /\ failures' = 0
    /\ UNCHANGED <<shut, inbox, ident, dropped, built, conf>>

\* websockets.connect raised
ConnectFail ==
    /\ connecting > 0
    /\ connecting' = connecting - 1
    /\ is_connected' = FALSE
    /\ ScheduleReconnect
    /\ UNCHANGED <<service_id, saved_id, ws, user_initiated_close, message_id,
                   message_queue, pending_messages, processed_tasks_cache,
                   in_progress_tasks, http_closed, cleanup_running>>
    /\ UNCHANGED <<registering, conn_start, reader, current, drainers_ready,
                   drainers_waiting, watchers, shutdowns_in_flight>>
    /\ UNCHANGED <<hist>>
    /\ failures' = failures + 1
    /\ UNCHANGED <<shut, inbox, ident, dropped, built, conf>>

\* The channel closes: the peer closes it normally ("closed_ok") or it
\* breaks ("closed_err").
ChannelClose(how) ==
    /\ ws = "open"
    /\ ws' = how
    /\ UNCHANGED <<service_id, saved_id, is_connected, user_initiated_close,
                   reconnect_attempts, message_id, message_queue, pending_messages,
                   processed_tasks_cache, in_progress_tasks, http_closed,
                   cleanup_running>>
    /\ UNCHANGED <<procs, hist>>
    /\ UNCHANGED more

\* _process_messages: the async-for over a closed connection
ReaderSeesClose ==
    /\ reader = "idle"
    /\ inbox = <<>>
    /\ ws \in {"closed_ok", "closed_err"}
    /\ reader' = "none"
    /\ IF ws = "closed_ok"
         THEN UNCHANGED <<is_connected, reconnect_attempts, backoff, delays>>
         ELSE /\ is_connected' = FALSE
              /\ IF ~user_initiated_close
                   THEN ScheduleReconnect
                   ELSE UNCHANGED <<reconnect_attempts, backoff, delays>>
    /\ UNCHANGED <<service_id, saved_id, ws, user_initiated_close, message_id,
                   message_queue, pending_messages, processed_tasks_cache,
                   in_progress_tasks, http_closed, cleanup_running>>
    /\ UNCHANGED <<registering, conn_start, connecting, current, drainers_ready,
                   drainers_waiting, watchers, shutdowns_in_flight>>
    /\ UNCHANGED <<hist>>
    /\ UNCHANGED <<failures, shut, inbox, ident, dropped, built, conf>>

\* ------------------------------------------------------ start and shutdown
\* The control plane: the n-th id it issues.
CpId(n) == CASE n = 1 -> RegisteredId [] n = 2 -> "s_2" [] OTHER -> "s_3"

\* The control plane answers POST /register/service: a request without id
\* creates a service with a new id and version 1, a request with an id
\* re-registers that service and bumps its version.
CpRegister(c, id) ==
    LET rid == IF id = Null THEN CpId(c.issued + 1) ELSE id
        v == c.version[rid] + 1
    IN  [id |-> rid, version |-> v,
         cp |-> [issued |-> IF id = Null THEN c.issued + 1 ELSE c.issued,
                 version |-> [c.version EXCEPT ![rid] = v]]]

\* variant: the persisted id is not loaded
LoadServiceId_None == Null

\* self._service_id = await self._persistence.load_service_id()
LoadServiceId == saved_id

\* variant: the http client stays usable after aclose()
HttpUsable_Always == TRUE

\* the httpx client raises once it has been closed
HttpUsable == ~http_closed

\* variant: start() does not look at the handlers
StartCheck_None == "ok"

\* OrraBase.start: the checks before registration
StartCheck ==
    IF ~conf.handler THEN "RuntimeError"
    ELSE IF conf.revertible /\ ~conf.revert_handler THEN "MissingRevertHandlerError"
    ELSE "ok"

\* OrraBase.start -> _register_service up to the await of the POST
StartCall ==
    /\ starts' = starts + 1
    /\ IF StartCheck # "ok"
         THEN /\ start_errors' = start_errors + 1
              /\ last_error' = StartCheck
              /\ UNCHANGED <<service_id, registering, log>>
         ELSE /\ service_id' = LoadServiceId
              /\ IF HttpUsable
                   THEN /\ registering' = registering + 1
                        /\ log' = Append(log, [ev |-> "request", run |-> run,
                                                id |-> LoadServiceId,
                                                version |-> version])
                        /\ UNCHANGED <<start_errors, last_error>>
                   ELSE /\ start_errors' = start_errors + 1
                        /\ last_error' = "ServiceRegistrationError"
                        /\ UNCHANGED <<registering, log>>
    /\ UNCHANGED <<saved_id, ws, is_connected, user_initiated_close,
                   reconnect_attempts, message_id, message_queue, pending_messages,
                   processed_tasks_cache, in_progress_tasks, http_closed,
                   cleanup_running>>
    /\ UNCHANGED <<conn_start, connecting, backoff, reader, current, drainers_ready,
                   drainers_waiting, watchers, shutdowns_in_flight>>
    /\ UNCHANGED <<last_sent, results_written, invocations, first_outcome, last_delivery, acked,
                   registrations, shutdown_calls, shutdowns_returned>>
    /\ UNCHANGED <<shut, chain, inbox, version, cp, run, dropped, built, conf>>

\* the POST returned 2xx: adopt the id, save it, create the connect task
RegisterOk ==
    LET data == CpRegister(cp, service_id) IN
    /\ registering > 0
    /\ HttpUsable
    /\ registering' = registering - 1
    /\ cp' = data.cp
    /\ service_id' = data.id
    /\ version' = data.version
    /\ saved_id' = data.id
    /\ log' = log \o <<[ev |-> "response", run |-> run, id |-> data.id,
                         version |-> data.version],
                        [ev |-> "save", run |-> run, id |-> data.id,
                         version |-> data.version]>>
    /\ conn_start' = conn_start + 1
    /\ registrations' = registrations + 1
    /\ UNCHANGED <<ws, is_connected, user_initiated_close,
                   reconnect_attempts, message_id, message_queue, pending_messages,
                   processed_tasks_cache, in_progress_tasks, http_closed,
                   cleanup_running>>
    /\ UNCHANGED <<connecting, backoff, reader, current, drainers_ready,
                   drainers_waiting, watchers, shutdowns_in_flight>>
    /\ UNCHANGED <<last_sent, results_written, invocations, first_outcome, last_delivery, acked,
                   starts, start_errors, last_error, shutdown_calls, shutdowns_returned>>
    /\ UNCHANGED <<shut, chain, inbox, run, dropped, built, conf>>

\* variant: the connect task is created although the POST failed
RegisterFail_Connect ==
    /\ registering > 0
    /\ registering' = registering - 1
    /\ start_errors' = start_errors + 1
    /\ last_error' = "ServiceRegistrationError"
    /\ conn_start' = conn_start + 1
    /\ UNCHANGED <<sdk>>
    /\ UNCHANGED <<connecting, backoff, reader, current, drainers_ready,
                   drainers_waiting, watchers, shutdowns_in_flight>>
    /\ UNCHANGED <<last_sent, results_written, invocations, first_outcome, last_delivery, acked,
                   starts, registrations, shutdown_calls, shutdowns_returned>>
    /\ UNCHANGED more

\* the POST failed (non-2xx, network failure, client closed meanwhile)
RegisterFail ==
    /\ registering > 0
    /\ registering' = registering - 1
    /\ start_errors' = start_errors + 1
    /\ last_error' = "ServiceRegistrationError"
    /\ UNCHANGED <<sdk>>
    /\ UNCHANGED <<conn_start, connecting, backoff, reader, current, drainers_ready,
                   drainers_waiting, watchers, shutdowns_in_flight>>
    /\ UNCHANGED <<last_sent, results_written, invocations, first_outcome, last_delivery, acked,
                   starts, registrations, shutdown_calls, shutdowns_returned>>
    /\ UNCHANGED more

\* OrraSDK(url, api_key, ...), called where no instance exists yet
Construct(key) ==
    /\ built = NoEntry
    /\ IF StartsWith(key, KeyPrefix)
         THEN /\ built' = Built(key)
              /\ cleanup_running' = TRUE
              /\ UNCHANGED last_error
         ELSE /\ built' = [kind |-> "error", key |-> key, parts |-> {}]
              /\ last_error' = "OrraError: Invalid API key format"
              /\ UNCHANGED cleanup_running
    /\ UNCHANGED <<service_id, saved_id, ws, is_connected, user_initiated_close,
                   reconnect_attempts, message_id, message_queue, pending_messages,
                   processed_tasks_cache, in_progress_tasks, http_closed>>
    /\ UNCHANGED <<procs>>
    /\ UNCHANGED <<last_sent, results_written, invocations, first_outcome,
                   last_delivery, acked, starts, start_errors, registrations,
                   shutdown_calls, shutdowns_returned>>
    /\ UNCHANGED <<shut, chain, inbox, ident, dropped, conf>>

\* The process ends and a new one creates an instance set up as c, over the
\* same persistence and the same control plane.
NewInstance(c) ==
    /\ run < MaxRuns
    /\ run' = run + 1
    /\ service_id' = Null
    /\ ws' = "none"
    /\ is_connected' = FALSE
    /\ user_initiated_close' = FALSE
    /\ reconnect_attempts' = 0
    /\ message_id' = 0
    /\ message_queue' = <<>>
    /\ pending_messages' = {}
    /\ processed_tasks_cache' = [k \in Keys |-> NoEntry]
    /\ in_progress_tasks' = [k \in Keys |-> NoEntry]
    /\ http_closed' = FALSE
    /\ cleanup_running' = TRUE
    /\ registering' = 0
    /\ conn_start' = 0
    /\ connecting' = 0
    /\ backoff' = 0
    /\ reader' = "none"
    /\ current' = NoEntry
    /\ drainers_ready' = 0
    /\ drainers_waiting' = 0
    /\ watchers' = {}
    /\ shutdowns_in_flight' = 0
    /\ last_sent' = NoEntry
    /\ results_written' = {}
    /\ invocations' = [k \in Keys |-> 0]
    /\ first_outcome' = [k \in Keys |-> NoEntry]
    /\ last_delivery' = NoDelivery
    /\ acked' = {}
    /\ starts' = 0
    /\ start_errors' = 0
    /\ last_error' = Null
    /\ registrations' = 0
    /\ shutdown_calls' = 0
    /\ shutdowns_returned' = 0
    /\ handler_at_shutdown' = FALSE
    /\ delays' = <<>>
    /\ failures' = 0
    /\ inbox' = <<>>
    /\ version' = 0
    /\ dropped' = NoEntry
    /\ built' = Built(ValidKey)
    /\ conf' = c
    /\ UNCHANGED <<saved_id, cp, log>>

\* The same program is run again.
NewRun == NewInstance(conf)

\* shutdown() up to the end of await self._ws.close(code=1000)
ShutdownBegin ==
    /\ shutdown_calls' = shutdown_calls + 1
    /\ user_initiated_close' = TRUE
    /\ IF ws = "open"
         THEN ws' = "closed_ok"     \* the close frame is sent
         ELSE UNCHANGED ws
    /\ shutdowns_in_flight' = shutdowns_in_flight + 1
    /\ UNCHANGED <<service_id, saved_id, is_connected,
                   reconnect_attempts, message_id, message_queue, pending_messages,
                   processed_tasks_cache, in_progress_tasks, http_closed,
                   cleanup_running>>
    /\ UNCHANGED <<registering, conn_start, connecting, backoff, reader, current,
                   drainers_ready, drainers_waiting, watchers>>
    /\ UNCHANGED <<last_sent, results_written, invocations, first_outcome, last_delivery, acked,
                   starts, start_errors, last_error, registrations, shutdowns_returned>>
    /\ handler_at_shutdown' = (reader = "handler")
    /\ UNCHANGED <<chain, inbox, ident, dropped, built, conf>>

\* shutdown(): cancel the cleanup task, close the HTTP client, return
ShutdownFinish ==
    /\ shutdowns_in_flight > 0
    /\ shutdowns_in_flight' = shutdowns_in_flight - 1
    /\ cleanup_running' = FALSE
    /\ http_closed' = TRUE
    /\ shutdowns_returned' = shutdowns_returned + 1
    /\ UNCHANGED <<service_id, saved_id, ws, is_connected, user_initiated_close,
                   reconnect_attempts, message_id, message_queue, pending_messages,
                   processed_tasks_cache, in_progress_tasks>>
    /\ UNCHANGED <<registering, conn_start, connecting, backoff, reader, current,
                   drainers_ready, drainers_waiting, watchers>>
    /\ UNCHANGED <<last_sent, results_written, invocations, first_outcome, last_delivery, acked,
                   starts, start_errors, last_error, registrations, shutdown_calls>>
    /\ UNCHANGED more

\* ------------------------------------------------------ housekeeping
\* variant: an entry exactly as old as the limit counts as expired
Older_OrEqual(entry, limit) == entry # NoEntry /\ entry.age >= limit

\* now - data["timestamp"] > limit, now - data["start_time"] > limit
Older(entry, limit) == entry # NoEntry /\ entry.age > limit

\* one pass of _cleanup_cache_periodically
Cleanup ==
    /\ cleanup_running
    /\ ~user_initiated_close
    /\ processed_tasks_cache' =
         [k \in Keys |-> IF Older(processed_tasks_cache[k], MAX_PROCESSED_TASKS_AGE)
                           THEN NoEntry ELSE processed_tasks_cache[k]]
    /\ in_progress_tasks' =
         [k \in Keys |-> IF Older(in_progress_tasks[k], MAX_IN_PROGRESS_AGE)
                           THEN NoEntry ELSE in_progress_tasks[k]]
    /\ invocations' =
         [k \in Keys |-> IF Older(processed_tasks_cache[k], MAX_PROCESSED_TASKS_AGE)
                           THEN 0 ELSE invocations[k]]
    /\ first_outcome' =
         [k \in Keys |-> IF Older(processed_tasks_cache[k], MAX_PROCESSED_TASKS_AGE)
                           THEN NoEntry ELSE first_outcome[k]]
    /\ UNCHANGED <<service_id, saved_id, ws, is_connected, user_initiated_close,
                   reconnect_attempts, message_id, message_queue, pending_messages,
                   http_closed, cleanup_running>>
    /\ UNCHANGED <<procs>>
    /\ UNCHANGED <<last_sent, results_written, last_delivery, acked, starts, start_errors, last_error, registrations,
                   shutdown_calls, shutdowns_returned>>
    /\ UNCHANGED more

\* time passes: d seconds
AgeCap == MAX_PROCESSED_TASKS_AGE + 1

Aged(entry, d) ==
    IF entry = NoEntry THEN entry
    ELSE [entry EXCEPT !.age = IF @ + d > AgeCap THEN AgeCap ELSE @ + d]

Tick(d) ==
    /\ \E k \in Keys : processed_tasks_cache[k] # NoEntry \/ in_progress_tasks[k] # NoEntry
    /\ processed_tasks_cache' = [k \in Keys |-> Aged(processed_tasks_cache[k], d)]
    /\ in_progress_tasks' = [k \in Keys |-> Aged(in_progress_tasks[k], d)]
    /\ processed_tasks_cache' # processed_tasks_cache \/ in_progress_tasks' # in_progress_tasks
    /\ UNCHANGED <<service_id, saved_id, ws, is_connected, user_initiated_close,
                   reconnect_attempts, message_id, message_queue, pending_messages,
                   http_closed, cleanup_running>>
    /\ UNCHANGED <<procs, hist>>
    /\ UNCHANGED more

\* ------------------------------------------------------ specification
\* The user's calls: one at a time, start() first, start() again only after
\* a shutdown() has returned.
UserStart(n) == starts < n /\ (starts = 0 \/ shutdowns_returned > 0)
UserShutdown(n) == shutdown_calls < n /\ shutdowns_in_flight = 0

\* Registration and the session: connect, reconnect, channel close.
Session ==
    \/ RegisterOk
    \/ RegisterFail
    \/ ConnectBegin
    \/ (drainers_ready + drainers_waiting < MaxDrainers /\ ConnectOk)
    \/ (reconnect_attempts < MaxFailures /\ ConnectFail)
    \/ BackoffElapsed
    \/ \E how \in {"closed_ok", "closed_err"} : ChannelClose(how)
    \/ ReaderSeesClose

\* The handler returning, the ack timeouts, the drainers.
Pipeline ==
    \/ \E out \in HandlerOutcomes : HandlerReturn(out)
    \/ \E id \in watchers : MessageTimeout(id)
    \/ DrainerLoop
    \/ DrainerWake

\* The frames the control plane sends.
Frames(keys) ==
    \/ \E k \in keys, valid \in BOOLEAN : DeliverTask(TaskFrame(k, valid))
    \/ \E sid \in {RegisteredId, OtherServiceId} : DeliverPing(sid)
    \/ \E id \in PendingIds \cup {UnknownId} : DeliverAck(id)

Housekeeping ==
    \/ Cleanup
    \/ \E d \in TickSteps : Tick(d)

\* A session started once and not shut down: frames for one key, time passing.
Next ==
    \/ (UserStart(1) /\ StartCall)
    \/ Session
    \/ Pipeline
    \/ Frames({"k1"})
    \/ Housekeeping

Spec == Init /\ [][Next]_vars

\* Start and shutdown, each possibly repeated, around a session.
NextShutdown ==
    \/ (UserStart(MaxStarts) /\ StartCall)
    \/ (UserShutdown(MaxShutdowns) /\ ShutdownBegin)
    \/ ShutdownFinish
    \/ Session
    \/ Pipeline
    \/ Frames({"k1"})

SpecShutdown == Init /\ [][NextShutdown]_vars


\* A session started once, with the scheduling asyncio gives: a task that can
\* run does run (each drainer, each ack-timeout watcher, the reconnect chain,
\* the reader noticing a closed channel).  What the control plane and the
\* network do is not constrained; the frames are task requests for one key
\* and acknowledgements.
NextLive ==
    \/ (UserStart(1) /\ StartCall)
    \/ Session
    \/ Pipeline
    \/ \E valid \in BOOLEAN : DeliverTask(TaskFrame("k1", valid))
    \/ \E id \in PendingIds \cup {UnknownId} : DeliverAck(id)

AllIds == {<<n, "k1">> : n \in 0..(MaxMsgId - 1)}

Scheduling ==
    /\ WF_vars(DrainerLoop)
    /\ WF_vars(DrainerWake)
    /\ \A id \in AllIds : WF_vars(MessageTimeout(id))
    /\ WF_vars(BackoffElapsed)
    /\ WF_vars(ConnectBegin)
    /\ WF_vars(ReaderSeesClose)

SpecLive == Init /\ [][NextLive]_vars /\ Scheduling

\* The same session without fairness and with one more wrapper id, enough for
\* two results of which one is written a second time.
InitOrder ==
    InitInstance /\ InitWorld /\ conf = [DefaultConf EXCEPT !.ids = MaxMsgId + 1]

SpecOrder == InitOrder /\ [][NextLive]_vars

\* The session of NextLive with frames the reader drops.
NextInbound ==
    \/ NextLive
    \/ \E kind \in OtherFrames : DeliverOther(kind)

SpecInbound == Init /\ [][NextInbound]_vars

\* A revertible instance with a revert handler: after k1 has completed and
\* its result has been written, revert requests arrive as task_request frames, under the key
\* of the task or under a key of their own.
InitRevert ==
    /\ InitInstance /\ InitWorld
    /\ conf = [DefaultConf EXCEPT !.revertible = TRUE, !.revert_handler = TRUE]

NextRevert ==
    \/ NextLive
    \/ \E k \in Keys, valid \in BOOLEAN :
          (/\ "k1" \in results_written
           /\ first_outcome["k1"] # NoEntry
           /\ first_outcome["k1"].kind = "result"
           /\ DeliverTask(RevertFrame(k, valid)))

SpecRevert == InitRevert /\ [][NextRevert]_vars

\* A session in which task requests for the key being executed arrive while
\* its handler runs.
NextBuffered ==
    \/ (UserStart(1) /\ StartCall)
    \/ Session
    \/ Pipeline
    \/ Frames({"k1"})
    \/ \E valid \in BOOLEAN :
          (current # NoEntry /\ current.idempotencyKey = "k1"
              /\ Arrive(TaskFrame("k1", valid)))
    \/ ReadBuffered

SpecBuffered == Init /\ [][NextBuffered]_vars

\* Successive process runs: each starts once, may be shut down, and is
\* followed by a new instance.
NextRuns ==
    \/ (UserStart(1) /\ StartCall)
    \/ (UserShutdown(1) /\ ShutdownBegin)
    \/ ShutdownFinish
    \/ Session
    \/ NewRun

SpecRuns == Init /\ [][NextRuns]_vars

\* Set-ups of OrraService / OrraAgent: revert_handler() refuses to register a
\* revert handler unless the instance is revertible.
Confs ==
    {c \in [ids : {MaxMsgId}, handler : BOOLEAN, revertible : BOOLEAN,
             revert_handler : BOOLEAN] : c.revert_handler => c.revertible}

InitSetup == InitInstance /\ InitWorld /\ conf \in Confs

\* Successive runs of programs that set the instance up in any way.
NextSetup ==
    \/ (UserStart(1) /\ StartCall)
    \/ (UserShutdown(1) /\ ShutdownBegin)
    \/ ShutdownFinish
    \/ Session
    \/ \E c \in Confs : NewInstance(c)

SpecSetup == InitSetup /\ [][NextSetup]_vars

\* Before the constructor is called: no instance, no housekeeping task.
InitConstruct ==
    /\ InitState
    /\ cleanup_running = FALSE
    /\ built = NoEntry
    /\ InitWorld
    /\ conf = DefaultConf

\* The constructor, then the calls the user can make on what it returned.
NextConstruct ==
    \/ \E key \in ApiKeys : Construct(key)
    \/ (built.kind = "sdk" /\ UserStart(1) /\ StartCall)
    \/ (built.kind = "sdk" /\ UserShutdown(1) /\ ShutdownBegin)
    \/ ShutdownFinish
    \/ Session
    \/ (cleanup_running /\ Cleanup)

SpecConstruct == InitConstruct /\ [][NextConstruct]_vars

\* A session that is started once and shut down once, with housekeeping and
\* the drainers but no frames, under the scheduling asyncio gives: a drainer
\* that can run does, a backoff sleep ends, a created connect task runs, the
\* reader notices a closed channel, shutdown() runs to its end.
NextQuiesce ==
    \/ (UserStart(1) /\ StartCall)
    \/ (UserShutdown(1) /\ ShutdownBegin)
    \/ ShutdownFinish
    \/ Session
    \/ DrainerLoop
    \/ Cleanup

SchedulingQuiesce ==
    /\ WF_vars(DrainerLoop)
    /\ WF_vars(BackoffElapsed)
    /\ WF_vars(ConnectBegin)
    /\ WF_vars(ReaderSeesClose)
    /\ WF_vars(ShutdownFinish)

SpecQuiesce == Init /\ [][NextQuiesce]_vars /\ SchedulingQuiesce

\* The reconnect controller alone: registration, connects that succeed or
\* fail any number of times, channel closes; no frames.
NextReconnect ==
    \/ (UserStart(1) /\ StartCall)
    \/ RegisterOk
    \/ RegisterFail
    \/ ConnectBegin
    \/ (drainers_ready + drainers_waiting < MaxDrainers /\ ConnectOk)
    \/ ConnectFail
    \/ BackoffElapsed
    \/ \E how \in {"closed_ok", "closed_err"} : ChannelClose(how)
    \/ ReaderSeesClose
    \/ DrainerLoop

SpecReconnect == Init /\ [][NextReconnect]_vars

\* Both keys in use and time passing in steps that bring an entry to a
\* threshold or one second past it.
AgeMarks ==
    {0, MAX_IN_PROGRESS_AGE, MAX_IN_PROGRESS_AGE + 1,
     MAX_PROCESSED_TASKS_AGE - MAX_IN_PROGRESS_AGE,
     MAX_PROCESSED_TASKS_AGE, MAX_PROCESSED_TASKS_AGE + 1}

AgeSteps == {1, MAX_IN_PROGRESS_AGE, MAX_PROCESSED_TASKS_AGE - MAX_IN_PROGRESS_AGE}

OnMarks ==
    \A k \in Keys :
        /\ processed_tasks_cache[k] # NoEntry => processed_tasks_cache[k].age \in AgeMarks
        /\ in_progress_tasks[k] # NoEntry => in_progress_tasks[k].age \in AgeMarks

NextAging ==
    \/ (UserStart(1) /\ StartCall)
    \/ RegisterOk
    \/ ConnectBegin
    \/ (drainers_ready + drainers_waiting = 0 /\ ConnectOk)
    \/ DrainerLoop
    \/ \E k \in Keys : DeliverTask(TaskFrame(k, TRUE))
    \/ \E out \in HandlerOutcomes : HandlerReturn(out)
    \/ \E id \in watchers : MessageTimeout(id)
    \/ Cleanup
    \/ \E d \in AgeSteps : (Tick(d) /\ OnMarks')

SpecAging == Init /\ [][NextAging]_vars

\* A session started once in which task requests for either key arrive, also
\* while a handler runs, and the channel may close and be reconnected.
NextSerial ==
    \/ (UserStart(1) /\ StartCall)
    \/ Session
    \/ \E out \in HandlerOutcomes : HandlerReturn(out)
    \/ \E k \in Keys, valid \in BOOLEAN : DeliverTask(TaskFrame(k, valid))
    \/ \E k \in Keys : Arrive(TaskFrame(k, TRUE))
    \/ ReadBuffered
    \/ Housekeeping

SpecSerial == Init /\ [][NextSerial]_vars

\* The session of NextInbound with frames that are JSON but no object.
NextFrames ==
    \/ NextInbound
    \/ DeliverNonObject

SpecFrames == Init /\ [][NextFrames]_vars

\* A connected session in which ACKs and pings arrive also while a handler
\* runs, with the wrapper ids of InitOrder.
NextWaiting ==
    \/ (UserStart(1) /\ StartCall)
    \/ RegisterOk
    \/ ConnectBegin
    \/ (drainers_ready + drainers_waiting = 0 /\ ConnectOk)
    \/ Pipeline
    \/ \E k \in Keys : DeliverTask(TaskFrame(k, TRUE))
    \/ \E id \in PendingIds : DeliverAck(id)
    \/ \E id \in PendingIds : ArriveAck(id)
    \/ ReadBufferedAck
    \/ DeliverPing(RegisteredId)
    \/ ArrivePing(RegisteredId)
    \/ ReadBufferedPing

SpecWaiting == InitOrder /\ [][NextWaiting]_vars

\* ------------------------------------------------------ properties
\* The session is connected over an open channel.
Up == ws = "open" /\ is_connected

\* The id counter has reached the bound of the model.
Exhausted == message_id >= MaxMsgId

QueueIds == {message_queue[i].id : i \in 1..Len(message_queue)}

\* C1: while the result cache retains the entry of an idempotency key, the
\* user handler has been invoked at most once for that key, whatever the
\* number of deliveries and of disconnects and reconnects in between
\* (invocations[k] counts the invocations since the cache last held no entry
\* for k).
HandlerAtMostOncePerKey ==
    \A k \in Keys : invocations[k] <= 1

\* C1 witness: after a second connection, a redelivery of a key whose handler
\* ran once is answered from the cache without invoking the handler.
RedeliveryServedFromCache ==
    /\ last_delivery.hit
    /\ ~last_delivery.invoked
    /\ last_delivery.key # Null
    /\ last_delivery.out.kind = "result"
    /\ invocations["k1"] = 1
    /\ drainers_ready + drainers_waiting >= 2

\* C2: a delivery that finds its key in the result cache produces a
\* task_result carrying the outcome of the first execution, result or error,
\* and does not invoke the handler.
CachedOutcomeReplayed ==
    last_delivery.hit =>
        /\ last_delivery.out # NoEntry
        /\ last_delivery.out = last_delivery.first
        /\ ~last_delivery.invoked

\* A task_result first wrapped as o sits on the queue and has never been
\* written to a channel.
QueuedUnsent(o) ==
    \E i \in 1..Len(message_queue) :
        /\ message_queue[i].orig = o
        /\ message_queue[i].tx = 0
        /\ message_queue[i].payload.type = "task_result"

\* C3: a task_result produced while the session is disconnected is put on
\* the outbound queue in the step that produces it, and once the session is
\* connected again it is written to the channel unless the channel goes down
\* first.
QueuedResultEventuallyWritten ==
    /\ [][(reader = "handler" /\ reader' # "handler" /\ ~Up)
            => (/\ Len(message_queue') = Len(message_queue) + 1
                /\ message_queue'[Len(message_queue')].tx = 0
                /\ message_queue'[Len(message_queue')].payload.type = "task_result")]_vars
    /\ \A o \in AllIds :
          (QueuedUnsent(o) /\ Up)
             ~> \/ (last_sent # NoEntry /\ last_sent.orig = o /\ last_sent.tx = 1)
                \/ ~Up
                \/ Exhausted

\* C3 witness: a task_result that was queued while disconnected has been
\* drained and written, for the first time, after a reconnect.
QueuedResultWritten ==
    /\ last_sent # NoEntry
    /\ last_sent.payload.type = "task_result"
    /\ last_sent.tx = 1
    /\ last_sent.id # last_sent.orig
    /\ Up

\* C4: a message written to a channel for the second time or later carries
\* the wrapper id its payload was first wrapped under.
WrapperIdStable ==
    (last_sent # NoEntry /\ last_sent.tx >= 2) => last_sent.id = last_sent.orig

\* C5: an ACK for wrapper id X removes the pending entry of X, and the
\* watcher of X never re-queues X after that.
AckedNeverRequeued ==
    [][/\ \A id \in acked' \ acked : id \notin PendingIds'
       /\ \A id \in acked : (id \in QueueIds') => (id \in QueueIds)]_vars

AckedAndWatcherFired ==
    /\ last_sent # NoEntry
    /\ last_sent.id \notin watchers
    /\ last_sent.id \notin PendingIds
    /\ last_sent.id \notin QueueIds
    /\ last_sent.tx = 1
    /\ message_queue = <<>>
    /\ message_id = 1

\* C7: once Shutdown has been called, no step writes a frame to a channel.
NoSendAfterShutdown ==
    [][user_initiated_close => last_sent' = last_sent]_vars

\* C8: once Shutdown has been called, no step opens a channel, starts a
\* connect attempt or schedules a reconnect.
NoReconnectAfterShutdown ==
    [][user_initiated_close =>
          /\ (ws' = "open" => ws = "open")
          /\ connecting' <= connecting
          /\ backoff' <= backoff]_vars

\* C9: a Start called after a Shutdown has returned raises at once, starts no
\* registration and no connect attempt and opens no channel; and no
\* registration completes once a Shutdown has returned.
StartAfterShutdownFails ==
    [][/\ (starts' # starts /\ shutdowns_returned > 0) =>
            /\ start_errors' = start_errors + 1
            /\ UNCHANGED <<registering, registrations, conn_start, connecting, ws,
                           is_connected, service_id>>
       /\ shutdowns_returned > 0 => registrations' = registrations]_vars

\* C9 witness: a second Start, made after a Shutdown returned, has failed and
\* the first Start had registered the service.
LateStartFailed ==
    /\ starts = 2
    /\ shutdowns_returned >= 1
    /\ start_errors = 1
    /\ registrations = 1
    /\ registering = 0

\* C10: a Shutdown called after an earlier Shutdown has returned changes no
\* field of the SDK, neither when it is called nor when it returns.
SecondShutdownNoOp ==
    [][(shutdowns_returned >= 1 /\ (shutdown_calls' # shutdown_calls
                                     \/ shutdowns_returned' # shutdowns_returned))
          => UNCHANGED sdk]_vars

\* C11: a shutdown() called while a user handler is executing does not
\* return before that handler has returned.
ShutdownWaitsForHandler ==
    [][shutdowns_returned' > shutdowns_returned => ~handler_at_shutdown]_vars

\* The documented backoff sequence.
ExpectedDelays == <<1, 2, 4, 8, 16, 30, 30, 30, 30, 30>>

\* C12: the delays slept by the reconnect controller since the last
\* successful connect are 1, 2, 4, 8, 16, 30, 30, 30, 30, 30 seconds, in
\* that order.
DelaysFollowBackoff ==
    \A k \in 1..Len(delays) :
        /\ k <= Len(ExpectedDelays)
        /\ delays[k] = ExpectedDelays[k]

\* C12 witness: ten connect attempts in a row have failed and all ten delays
\* have been slept.
TenDelaysSlept ==
    /\ Len(delays) = 10
    /\ failures >= 10
    /\ delays[6] = 30

\* C13 as stated: once ten connect attempts in a row have failed, no further
\* connect attempt is scheduled, started or made, and the attempt counter
\* never exceeds 10.
NoAttemptAfterTenFailures ==
    [][/\ reconnect_attempts' <= max_reconnect_attempts
       /\ failures >= 10 =>
            /\ backoff' <= backoff
            /\ conn_start' <= conn_start
            /\ connecting' <= connecting]_vars

\* C13 amended: the attempt counter never exceeds 10, no reconnect is
\* scheduled once it has reached 10, and at most 11 connect attempts fail in
\* a row (the first connect of the session and ten reconnects); after the
\* eleventh no attempt is scheduled, started or made.
ReconnectStopsAtCounterCap ==
    [][/\ reconnect_attempts' <= max_reconnect_attempts
       /\ backoff' > backoff => reconnect_attempts < max_reconnect_attempts
       /\ failures' <= max_reconnect_attempts + 1
       /\ (failures >= max_reconnect_attempts + 1
            \/ (reconnect_attempts >= max_reconnect_attempts /\ failures' > failures)) =>
            /\ backoff' <= backoff
            /\ conn_start' <= conn_start
            /\ connecting' <= connecting]_vars

\* C13 witness: the controller has stopped: the counter is at 10, the last
\* attempt has failed, nothing is scheduled or in flight.
ControllerStopped ==
    /\ reconnect_attempts = max_reconnect_attempts
    /\ failures >= 10
    /\ backoff = 0
    /\ conn_start = 0
    /\ connecting = 0
    /\ ~is_connected

\* C14: whenever the channel has closed, normally or not, without Shutdown
\* having been called and with the attempt counter below its cap, while the
\* reader waits for the next frame, the connected signal is eventually
\* cleared and a connect attempt made.
CloseLeadsToReconnect ==
    (/\ ws \in {"closed_ok", "closed_err"}
     /\ reader = "idle"
     /\ ~user_initiated_close
     /\ reconnect_attempts < max_reconnect_attempts)
        ~> (~is_connected /\ connecting > 0)

\* The wrapped messages created by the last call of _send_message.
LastWrapped ==
    {w \in pending_messages \cup {message_queue[i] : i \in 1..Len(message_queue)}
                            \cup ({last_sent} \ {NoEntry}) : w.id[1] = message_id - 1}

\* C15: a task_request that arrived while the handler of the same key was
\* executing is answered, when the reader takes it, with a task_status
\* "in_progress" frame and without invoking the handler.
SecondDeliveryGetsInProgress ==
    [][(inbox # <<>> /\ inbox' = Tail(inbox)) =>
          /\ invocations' = invocations
          /\ message_id' = message_id + 1
          /\ \A w \in LastWrapped' :
                /\ w.payload.type = "task_status"
                /\ w.payload.status = "in_progress"]_vars

\* C16: a task_request whose input fails the input model does not invoke the
\* user handler and is answered with a task_result carrying the input
\* validation error.
InvalidInputRejected ==
    (last_delivery.key # Null /\ ~last_delivery.valid) =>
        /\ ~last_delivery.invoked
        /\ last_delivery.out = [kind |-> "error", val |-> "Input validation failed"]

\* C17: the key of a task_request whose input fails the input model is not
\* inserted into the in-progress table at any point of its processing.
InvalidInputNeverInProgress ==
    (last_delivery.key # Null /\ ~last_delivery.valid) => ~last_delivery.entered

\* C18: when the handler awaited by the reader ends with an error, the reader
\* goes on to the next frame, exactly one task_result with that error and no
\* result has been emitted, the error is in the cache under the key and the
\* key is out of the in-progress table.
HandlerErrorContained ==
    [][(/\ reader = "handler"
        /\ reader' # "handler"
        /\ first_outcome'[current.idempotencyKey].kind = "error") =>
          LET k == current.idempotencyKey IN
          /\ reader' = "idle"
          /\ processed_tasks_cache'[k].kind = "error"
          /\ processed_tasks_cache'[k].val = first_outcome'[k].val
          /\ in_progress_tasks'[k] = NoEntry
          /\ message_id' = message_id + 1
          /\ LastWrapped' # {}
          /\ \A w \in LastWrapped' :
                /\ w.payload.type = "task_result"
                /\ w.payload.error = first_outcome'[k].val
                /\ w.payload.result = Null]_vars

\* The events of one kind in the registration log.
Events(ev) == {i \in DOMAIN log : log[i].ev = ev}

\* The id persisted by the last save before position i, null if there is none.
SavedBefore(i) ==
    LET saves == {j \in Events("save") : j < i}
    IN  IF saves = {} THEN Null
        ELSE log[CHOOSE j \in saves : \A h \in saves : h <= j].id

\* C19: every registration request carries the id persisted by the last save
\* before it (null if nothing was saved), and of two registration responses of
\* different runs the later has the same id and a strictly greater version.
IdentityStable ==
    /\ \A i \in Events("request") : log[i].id = SavedBefore(i)
    /\ \A i, j \in Events("response") :
          log[i].run < log[j].run =>
             /\ log[j].id = log[i].id
             /\ log[j].version > log[i].version

\* Two runs have registered and the second has taken over its version.
SecondRunRegistered ==
    /\ run = 2
    /\ registrations = 1
    /\ version = 2
    /\ \E i, j \in Events("response") : log[i].run = 1 /\ log[j].run = 2

\* The saves of the current run.
SavesOfRun == {i \in Events("save") : log[i].run = run}

\* C20: every start of the run is in flight, failed or registered once, and
\* there is one save per registration, directly after its response and with
\* the id of that response, however often the channel has been reopened.
RegisteredAndSavedOnce ==
    /\ starts = registering + start_errors + registrations
    /\ Cardinality(SavesOfRun) = registrations
    /\ \A i \in SavesOfRun :
          /\ i > 1
          /\ log[i - 1].ev = "response"
          /\ log[i - 1].run = run
          /\ log[i - 1].id = log[i].id

\* The start succeeded, the channel was opened a second time after a close,
\* and there is still one registration and one save.
ReconnectedWithOneSave ==
    /\ starts = 1
    /\ registrations = 1
    /\ Cardinality(SavesOfRun) = 1
    /\ drainers_ready + drainers_waiting >= 2
    /\ Up

\* C21: a step in which a start fails with ServiceRegistrationError (the POST
\* failed, or the client could not send it) invokes no save, leaves the
\* persisted id alone, counts no registration and creates no connect task.
RegistrationFailureContained ==
    [][start_errors' > start_errors =>
          /\ start_errors' = start_errors + 1
          /\ log' = log
          /\ saved_id' = saved_id
          /\ registrations' = registrations
          /\ conn_start' = conn_start
          /\ connecting' = connecting
          /\ ws' = ws]_vars

\* The first start sent its request and failed: nothing saved, no channel.
FirstStartFailed ==
    /\ starts = 1
    /\ start_errors = 1
    /\ Events("request") # {}
    /\ Events("save") = {}
    /\ saved_id = Null
    /\ conn_start = 0 /\ connecting = 0 /\ ws = "none"

NoStatusAfterResult ==
    [][(/\ last_sent' # last_sent
        /\ last_sent'.payload.type = "task_status") =>
            last_sent'.payload.executionId \notin results_written]_vars

\* A further request for an execution has been answered after the result of
\* that execution was written: the answer is the second frame written, and it
\* is a task_result.
DuplicateAnsweredAfterResult ==
    /\ last_delivery.hit
    /\ last_delivery.key \in results_written
    /\ last_sent # NoEntry
    /\ last_sent.id[1] = 1
    /\ last_sent.tx = 1
    /\ last_sent.payload.type = "task_result"
    /\ last_sent.payload.executionId = last_delivery.key

\* The instance is set up so that start() must refuse.
BadSetup == ~conf.handler \/ (conf.revertible /\ ~conf.revert_handler)

\* C24: a start() of an instance without handler fails with RuntimeError, one
\* of a revertible instance without revert handler with
\* MissingRevertHandlerError; the step sends no registration request, loads
\* and saves no id and opens no channel.
StartRefusedBeforeRegistration ==
    [][(starts' > starts /\ BadSetup) =>
          /\ start_errors' = start_errors + 1
          /\ last_error' = IF ~conf.handler THEN "RuntimeError"
                            ELSE "MissingRevertHandlerError"
          /\ log' = log
          /\ service_id' = service_id
          /\ saved_id' = saved_id
          /\ registering' = registering
          /\ conn_start' = conn_start
          /\ connecting' = connecting
          /\ ws' = ws]_vars

\* A revertible instance without revert handler was started where an earlier
\* run had saved an id: the start failed and the id was not loaded.
RevertibleStartRefused ==
    /\ conf.handler /\ conf.revertible /\ ~conf.revert_handler
    /\ starts = 1
    /\ start_errors = 1
    /\ last_error = "MissingRevertHandlerError"
    /\ saved_id # Null
    /\ service_id = Null
    /\ ws = "none"

\* C25: a revert request is not handed to the task handler, and the reply to
\* it is the status of the revert handler (COMPLETED, FAILED or PARTIAL), not
\* a task_result with the result or the error of the task handler.
RevertRoutedToRevertHandler ==
    (last_delivery.key # Null /\ last_delivery.revert) =>
        /\ ~last_delivery.invoked
        /\ last_delivery.out # NoEntry
        /\ last_delivery.out.kind = "revert_status"

\* C26: a step in which the reader drops a frame that is not JSON or has an
\* unknown type changes neither the dedup cache, the in-progress table, the
\* pending-ack table nor the queue, wraps and writes no frame, and leaves the
\* reader reading.
DroppedFrameChangesNothing ==
    [][dropped' # dropped =>
          /\ processed_tasks_cache' = processed_tasks_cache
          /\ in_progress_tasks' = in_progress_tasks
          /\ pending_messages' = pending_messages
          /\ message_queue' = message_queue
          /\ message_id' = message_id
          /\ last_sent' = last_sent
          /\ reader' = "idle"
          /\ ws' = ws /\ is_connected' = is_connected]_vars

\* After a frame was dropped the reader handled a task_request, whose result
\* has been written.
FrameHandledAfterDrop ==
    /\ dropped # NoEntry
    /\ dropped.at = 0
    /\ last_sent # NoEntry
    /\ last_sent.payload.type = "task_result"
    /\ reader = "idle"

\* C27: a constructor call with a key that does not start with "sk-orra-"
\* has failed with OrraError("Invalid API key format") and has created
\* nothing: no logger, persistence manager, HTTP client or housekeeping task;
\* with a key that does, it has created them all.
BadKeyCreatesNothing ==
    built # NoEntry =>
        IF /\ Len(built.key) >= Len(KeyPrefix)
           /\ \A i \in 1..Len(KeyPrefix) : built.key[i] = KeyPrefix[i]
          THEN built.kind = "sdk" /\ built.parts = Parts
          ELSE /\ built.kind = "error"
               /\ built.parts = {}
               /\ ~cleanup_running
               /\ last_error = "OrraError: Invalid API key format"
               /\ starts = 0 /\ registering = 0 /\ ws = "none"

\* The constructor was called with a key that has the prefix inside but not
\* at its start, and failed.
ShiftedPrefixRejected ==
    /\ built # NoEntry
    /\ built.key = <<"x">> \o KeyPrefix
    /\ built.kind = "error"

\* C28: once shutdown() has been called, eventually no drainer is left
\* (neither looping nor blocked on the queue), the housekeeping task has
\* ended and no reconnect is sleeping in its backoff.
ShutdownStopsBackgroundTasks ==
    (shutdown_calls > 0) ~>
        /\ drainers_ready + drainers_waiting = 0
        /\ ~cleanup_running
        /\ backoff = 0

\* C29: at most one _process_queue task exists at any time, looping or
\* blocked on the queue.
AtMostOneDrainer == drainers_ready + drainers_waiting <= 1

\* C30: at most one reconnect is armed at any time: _schedule_reconnect
\* coroutines sleeping, _connect_websocket tasks created and
\* _connect_websocket coroutines awaiting the connect count one at most; and
\* while one is armed no reader is running that could arm another.
AtMostOneReconnectArmed ==
    /\ backoff + conn_start + connecting <= 1
    /\ backoff + conn_start + connecting = 1 => reader \in {"none", "crashed"}

\* A reconnect armed by a broken channel: the counter was reset by the connect
\* before, the reader has ended, one backoff sleep is running.
ArmedByChannelClose ==
    /\ ws = "closed_err"
    /\ reader = "none"
    /\ reconnect_attempts = 1
    /\ backoff = 1
    /\ conn_start = 0 /\ connecting = 0

\* C31: a step that opens the channel leaves the attempt counter at 0 and the
\* connected signal set, and the step in which the reader of that connection
\* arms a reconnect sleeps the base delay of 1 second, as the first delay since
\* the connect.
FirstDelayAfterConnectIsBase ==
    [][/\ (ws # "open" /\ ws' = "open") =>
             (reconnect_attempts' = 0 /\ is_connected')
       /\ (reader = "idle" /\ reader' = "none" /\ backoff' > backoff) =>
             delays' = <<reconnect_interval>>]_vars

\* The second connection, reached through at least one backoff, has broken
\* and its reader has armed a reconnect with a delay of 1.
BaseDelayAfterReconnect ==
    /\ drainers_ready + drainers_waiting = 2
    /\ ws = "closed_err"
    /\ reader = "none"
    /\ backoff = 1
    /\ delays = <<1>>

\* C32: the handling of a ping that names this service wraps exactly one
\* payload, a pong carrying the service id, writes it to the channel and
\* leaves the queue as it was; the handling of a ping that names another
\* service changes nothing at all.
PingAnsweredOnlyForOwnId ==
    [][/\ DeliverPing(service_id) =>
             /\ message_id' = message_id + 1
             /\ last_sent'.id = <<message_id, "">>
             /\ last_sent'.tx = 1
             /\ last_sent'.payload.type = "pong"
             /\ last_sent'.payload.serviceId = service_id
             /\ pending_messages' = pending_messages \cup {last_sent'}
             /\ message_queue' = message_queue
       /\ DeliverPing(OtherServiceId) => UNCHANGED vars]_vars

\* A pong carrying the service id has been written to the channel.
PongWritten ==
    /\ last_sent # NoEntry
    /\ last_sent.payload.type = "pong"
    /\ last_sent.payload.serviceId = RegisteredId
    /\ last_sent \in pending_messages

\* the wrapped messages the SDK holds
WrappedUnder == pending_messages \cup {message_queue[i] : i \in 1..Len(message_queue)}

\* C33: every wrapper id in the pending-ack table or the queue carries a
\* sequence number below the counter, so the id the next call of
\* _send_message makes is new; no two entries of the pending-ack table and
\* no two entries of the queue share an id.
WrapperIdsUnique ==
    /\ \A w \in WrappedUnder : w.id[1] < message_id
    /\ \A w1, w2 \in pending_messages : w1.id = w2.id => w1 = w2
    /\ \A i, j \in 1..Len(message_queue) :
           message_queue[i].id = message_queue[j].id => i = j

\* Two messages with different ids wait for their acknowledgments.
TwoPendingIds ==
    /\ Cardinality(pending_messages) = 2
    /\ Cardinality(PendingIds) = 2

\* C34: a housekeeping pass removes a dedup-cache entry exactly when its age
\* is above 86400 seconds and an in-progress entry exactly when its age is
\* above 1800 seconds, leaves every other entry as it was, and leaves the
\* pending-ack table and the outbound queue as they were.
CleanupRemovesExactlyExpired ==
    [][Cleanup =>
         /\ \A k \in Keys :
               LET c == processed_tasks_cache[k]
                   p == in_progress_tasks[k]
               IN  /\ processed_tasks_cache'[k] =
                         IF c # NoEntry /\ c.age > 86400 THEN NoEntry ELSE c
                   /\ in_progress_tasks'[k] =
                         IF p # NoEntry /\ p.age > 1800 THEN NoEntry ELSE p
         /\ pending_messages' = pending_messages
         /\ message_queue' = message_queue]_vars

\* The in-progress entry of the running handler, 1801 seconds old, has been
\* removed while a dedup-cache entry of the same age and a pending message
\* remain.
ExpiredInProgressOnlyRemoved ==
    /\ reader = "handler"
    /\ current.idempotencyKey = "k2"
    /\ in_progress_tasks["k2"] = NoEntry
    /\ processed_tasks_cache["k1"] # NoEntry
    /\ processed_tasks_cache["k1"].age = 1801
    /\ pending_messages # {}

\* C35: every call of _send_message leaves the message it wrapped in the
\* queue or the pending-ack table, and every step keeps each payload held
\* there held (under the same or a new wrapper id) unless the step is the
\* acknowledgment of the id it is pending under.
NoPayloadDropped ==
    [][/\ message_id' = message_id + 1 =>
             \E w \in WrappedUnder' : w.id[1] = message_id
       /\ \A w \in WrappedUnder :
             \/ \E v \in WrappedUnder' : v.orig = w.orig /\ v.payload = w.payload
             \/ w \in pending_messages /\ DeliverAck(w.id)]_vars

\* A payload that was written to a channel and timed out unacknowledged
\* waits in the queue while the channel is down.
WrittenPayloadBackInQueue ==
    /\ ws = "closed_err"
    /\ ~is_connected
    /\ \E i \in 1..Len(message_queue) : message_queue[i].tx >= 1

ReaderSurvivesEveryFrame ==
    [][reader = "idle" => reader' # "crashed"]_vars

\* C38: when a handler returns whose in-progress entry housekeeping has
\* removed, its outcome is cached under the key, one task_result is wrapped,
\* and the reader goes on to the next frame.
EvictedHandlerCompletes ==
    [][(/\ reader = "handler"
        /\ in_progress_tasks[current.idempotencyKey] = NoEntry
        /\ reader' # "handler") =>
          LET k == current.idempotencyKey IN
          /\ processed_tasks_cache'[k] # NoEntry
          /\ message_id' = message_id + 1
          /\ reader' = "idle"]_vars

\* C39: while the ACK of a pending message is on the channel, put there
\* before the ack timeout of the message expired, no step puts the message
\* back on the queue.
AckOnChannelPreventsRequeue ==
    [][\A w \in pending_messages :
          (\E i \in 1..Len(inbox) : inbox[i] = AckFrame(w.id)) =>
             \A j \in 1..Len(message_queue') : message_queue'[j].id # w.id]_vars

\* C40: a ping that arrived while a handler was executing has been answered
\* by the time the handler completes: no handler completes while such a ping
\* is still on the channel.
PingAnsweredBeforeHandlerCompletes ==
    [][(reader = "handler" /\ reader' # "handler") =>
          \A i \in 1..Len(inbox) : ~IsPing(inbox[i])]_vars

=============================================================================
